---- MODULE Spec2Model ----
(***************************************************************************)
(* Pop Match: the match-chain resolution engine of the powerup variant     *)
(* (src/unnamed/part_001).  The React component's state hooks are the      *)
(* variables; every event handler is a pure operator from a state record   *)
(* to a state record, and every action applies one handler.                *)
(*                                                                         *)
(* A Ball is [color, powerup]; the id field of the source is an identity   *)
(* token read by the presentation only and is left out.  null is Null.     *)
(* Math.random() is a nondeterministic draw from a bounded family.         *)
(***************************************************************************)
EXTENDS Integers, Sequences, FiniteSets, TLC

ROWS == 8
COLS == 5
MIN_MATCH == 3

\* Bounds of the exploration (not program constants).
MaxChain == 3
MaxResolved == 2
MaxLevel == 1

VARIABLES level, grid, selection, isDragging, score, moves, targets,
          gameState, multiplierTurns, combo, comboMeter, resolved, lastEvent,
          error

vars == <<level, grid, selection, isDragging, score, moves, targets,
          gameState, multiplierTurns, combo, comboMeter, resolved, lastEvent,
          error>>

Min(a, b) == IF a < b THEN a ELSE b
Max(a, b) == IF a > b THEN a ELSE b
Abs(x) == IF x < 0 THEN -x ELSE x

RowIdx == 0 .. (ROWS - 1)
ColIdx == 0 .. (COLS - 1)

\* type BallColor / PowerupType
BaseColors == {"red", "blue", "yellow", "green", "purple"}
Wildcards == {"rainbow", "special"}
Powerups == {"moves", "multiplier", "bomb"}

Null == [color |-> "null", powerup |-> "none"]
Ball(col, pw) == [color |-> col, powerup |-> pw]
Pos(r, c) == [r |-> r, c |-> c]

\* the colors array of generateGrid and applyGravity
colors == <<"red", "blue", "yellow", "green", "purple">>

\* const LEVELS
LEVELS ==
  << [moves |-> 20, targets |-> [k \in {"yellow", "red"} |->
          CASE k = "yellow" -> 10 [] k = "red" -> 10]],
     [moves |-> 18, targets |-> [k \in {"yellow", "red", "blue"} |->
          CASE k = "yellow" -> 15 [] k = "red" -> 10 [] k = "blue" -> 5]],
     [moves |-> 15, targets |-> [k \in {"yellow", "red", "blue", "green"} |->
          CASE k = "yellow" -> 20 [] k = "red" -> 15 [] k = "blue" -> 10
            [] k = "green" -> 5]],
     [moves |-> 15, targets |-> [k \in BaseColors |->
          CASE k = "yellow" -> 25 [] k = "red" -> 20 [] k = "blue" -> 15
            [] k = "green" -> 10 [] k = "purple" -> 5]],
     [moves |-> 12, targets |-> [k \in BaseColors |->
          CASE k = "yellow" -> 30 [] k = "red" -> 25 [] k = "blue" -> 20
            [] k = "green" -> 15 [] k = "purple" -> 10]] >>

RECURSIVE SumSeq(_)
SumSeq(q) == IF Len(q) = 0 THEN 0 ELSE Head(q) + SumSeq(Tail(q))

\* A level generator that adds twice the drawn extra to every target.
DoubleExtraConfig(levelIndex, lv) ==
  IF levelIndex < Len(LEVELS) THEN LEVELS[levelIndex + 1]
  ELSE
    LET baseTargets == 20 + (levelIndex - Len(LEVELS) + 1) * 5
        numColors == Min(5, 3 + (levelIndex \div 3))
        shuffledColors == SubSeq(lv.order, 1, numColors)
        count(i) == (baseTargets \div numColors) + 2 * lv.extra[i]
        tg == [k \in {shuffledColors[i] : i \in 1 .. numColors} |->
                 count(CHOOSE i \in 1 .. numColors : shuffledColors[i] = k)]
        totalTargets == SumSeq([i \in 1 .. numColors |-> count(i)])
    IN [moves |-> Max(12, (totalTargets \div 3) + 2), targets |-> tg]

\* generateLevelConfig(levelIndex).  For a generated level the draw lv holds
\* the outcome of the shuffle (lv.order, a permutation of the five base
\* colors) and, per chosen color, Math.floor(Math.random() * 5) (lv.extra).
GenerateLevelConfig(levelIndex, lv) ==
  IF levelIndex < Len(LEVELS) THEN LEVELS[levelIndex + 1]
  ELSE
    LET baseTargets == 20 + (levelIndex - Len(LEVELS) + 1) * 5
        numColors == Min(5, 3 + (levelIndex \div 3))
        shuffledColors == SubSeq(lv.order, 1, numColors)
        count(i) == (baseTargets \div numColors) + lv.extra[i]
        tg == [k \in {shuffledColors[i] : i \in 1 .. numColors} |->
                 count(CHOOSE i \in 1 .. numColors : shuffledColors[i] = k)]
        totalTargets == SumSeq([i \in 1 .. numColors |-> count(i)])
    IN [moves |-> Max(12, (totalTargets \div 3) + 2), targets |-> tg]

\* The level draws explored.
LevelDraws ==
  { [order |-> <<"red", "blue", "yellow", "green", "purple">>,
     extra |-> <<0, 4, 2, 1, 3>>] }

\* ---------------------------------------------------------------- grid

\* The draws of one generateGrid call that are explored.  A draw gives a
\* ground color (an index into colors) for every cell, a second color for
\* the cells of a patch, and the outcome of spawnPowerup for the bottom-left
\* cell and for the cell two rows above it (every other cell draws no
\* powerup).
PatchCells(shape) ==
  CASE shape = "cell" -> {Pos(ROWS - 2, 1)}
    [] shape = "block" -> {Pos(r, c) : r \in {ROWS - 2, ROWS - 1}, c \in 0 .. 2}
    [] OTHER -> {}

GridDraw(shape, patch, ground, pw) ==
  [shape |-> shape, patch |-> patch, ground |-> ground, powerup |-> pw,
   second |-> "none"]

GridDrawTwo(shape, patch, ground, pw, second) ==
  [shape |-> shape, patch |-> patch, ground |-> ground, powerup |-> pw,
   second |-> second]

GridDraws ==
  { GridDraw("cell", 3, 2, "none"),        \* blue, one yellow cell
    GridDraw("cell", 3, 1, "multiplier"),
    GridDraw("cell", 1, 3, "bomb"),        \* yellow, one red cell, a bomb
    \* red, six yellow cells, a yellow bomb and a red bomb
    GridDrawTwo("block", 3, 1, "bomb", "bomb"),
    GridDraw("block", 1, 3, "moves"),      \* yellow, six red cells
    GridDraw("cell", 1, 1, "none"),        \* all red
    \* all yellow, a bomb and a 'moves' tile
    GridDrawTwo("cell", 3, 3, "bomb", "moves") }

\* spawnPowerup(), as drawn for cell (r, c)
SpawnPowerup(gd, r, c) ==
  IF r = ROWS - 1 /\ c = 0 THEN gd.powerup
  ELSE IF r = ROWS - 3 /\ c = 0 THEN gd.second
  ELSE "none"

\* generateGrid(rows, cols)
GenerateGrid(gd) ==
  [r \in RowIdx |-> [c \in ColIdx |->
      Ball(IF Pos(r, c) \in PatchCells(gd.shape)
             THEN colors[gd.patch] ELSE colors[gd.ground],
           SpawnPowerup(gd, r, c))]]

\* The grids generateGrid returns under the draws explored.
GeneratedGrids == {GenerateGrid(gd) : gd \in GridDraws}

\* The draws of one applyGravity call that are explored: every new tile of
\* the call draws the same color index.
RefillDraws == {1, 3}

\* the emptySpaces counter of applyGravity when the loop reaches row r of column c
NullsBelow(g, r, c) == Cardinality({q \in RowIdx : q > r /\ g[q][c] = Null})

EmptySpaces(g, c) == Cardinality({q \in RowIdx : g[q][c] = Null})

\* A refilled tile: a base color, no powerup field.
\* A refill that leaves the cell empty.
NoTile(d, r, c) == Null

\* A refill that draws special tiles.
WildTile(d, r, c) == Ball("special", "none")

\* The tile applyGravity creates for an emptied cell: a random color, no powerup.
NewTile(d, r, c) == Ball(colors[d], "none")

\* A refill that puts the new tiles where the cells were emptied and moves
\* no tile.
RefillInPlace(g, d) ==
  [r \in RowIdx |-> [c \in ColIdx |->
      IF g[r][c] = Null THEN NewTile(d, r, c) ELSE g[r][c]]]

\* applyGravity(currentGrid): in every column the tile of row q moves down by
\* the number of empty cells below it, and the emptySpaces top rows get new
\* tiles.
ApplyGravity(g, d) ==
  [r \in RowIdx |-> [c \in ColIdx |->
      IF r < EmptySpaces(g, c)
        THEN NewTile(d, r, c)
        ELSE LET src == CHOOSE q \in RowIdx :
                          g[q][c] # Null /\ q + NullsBelow(g, q, c) = r
             IN g[src][c]]]

\* ---------------------------------------------------------- selection

IsWild(b) == b.color = "rainbow" \/ b.color = "special"

InGrid(r, c) == r \in RowIdx /\ c \in ColIdx

\* grid[r][c] as JavaScript reads it for a row index that exists: a column
\* index outside the row yields undefined, which is falsy like null.
CellAt(g, r, c) == IF c \in ColIdx THEN g[r][c] ELSE Null

\* Any other cell, whatever its distance.
OtherCell(last, r, c) == ~(last.r = r /\ last.c = c)

\* isAdjacent of handleCellEnter: king-move adjacency to the last chain cell
IsAdjacent(last, r, c) ==
  Abs(last.r - r) <= 1 /\ Abs(last.c - c) <= 1 /\ ~(last.r = r /\ last.c = c)

RECURSIVE FirstColor(_, _, _)
\* The loop "for (const s of selection) { if (b && b.color !== 'rainbow' &&
\* b.color !== 'special') ... break }": the color of the first non-wildcard
\* cell from index i on, "null" when there is none.
FirstColor(g, sel, i) ==
  IF i > Len(sel) THEN "null"
  ELSE LET b == g[sel[i].r][sel[i].c]
       IN IF b # Null /\ ~IsWild(b) THEN b.color ELSE FirstColor(g, sel, i + 1)

\* targetColor of handleCellEnter, chainColor of handlePointerUp, getChainColor
ChainColor(g, sel) == FirstColor(g, sel, 1)

Contains(sel, r, c) == \E i \in 1 .. Len(sel) : sel[i] = Pos(r, c)

\* A color test that every cell passes.
AnyConnects(g, prev, ball) == TRUE

\* The color test of handleCellEnter for an adjacent, occupied cell.
CanConnect(g, prev, ball) ==
  \/ IsWild(ball)
  \/ ChainColor(g, prev) = "null"
  \/ ball.color = ChainColor(g, prev)

\* An updater without the backtrack rule: a cell of the chain is ignored.
EnterNoBacktrack(g, prev, r, c) ==
  IF Len(prev) = 0 THEN prev
  ELSE IF Contains(prev, r, c) THEN prev
  ELSE IF IsAdjacent(prev[Len(prev)], r, c)
    THEN LET ball == CellAt(g, r, c)
         IN IF ball = Null THEN prev
            ELSE IF CanConnect(g, prev, ball) THEN Append(prev, Pos(r, c))
            ELSE prev
  ELSE prev

\* The updater passed to setSelection in handleCellEnter.
EnterSelection(g, prev, r, c) ==
  IF Len(prev) = 0 THEN prev
  ELSE IF Len(prev) > 1 /\ prev[Len(prev) - 1] = Pos(r, c)
    THEN SubSeq(prev, 1, Len(prev) - 1)
  ELSE IF Contains(prev, r, c) THEN prev
  ELSE IF IsAdjacent(prev[Len(prev)], r, c)
    THEN LET ball == CellAt(g, r, c)
         IN IF ball = Null THEN prev
            ELSE IF CanConnect(g, prev, ball) THEN Append(prev, Pos(r, c))
            ELSE prev
  ELSE prev

\* handleCellEnter(r, c)
HandleCellEnter(s, r, c) ==
  IF s.gameState # "playing" THEN s
  ELSE [s EXCEPT !.selection = EnterSelection(s.grid, s.selection, r, c)]

\* handlePointerMove: forwards the cell under the pointer to handleCellEnter
HandlePointerMove(s, r, c) ==
  IF ~s.isDragging \/ s.gameState # "playing" THEN s
  ELSE HandleCellEnter(s, r, c)

\* handlePointerDown(r, c, e)
HandlePointerDown(s, r, c) ==
  IF s.gameState # "playing" \/ CellAt(s.grid, r, c) = Null THEN s
  ELSE [s EXCEPT !.isDragging = TRUE, !.selection = <<Pos(r, c)>>]

\* handlePointerDown(r, c, e) for a row index that does not exist: in the
\* playing phase "!grid[r][c]" reads a property of undefined, a TypeError.
PointerDownThrows(s, r, c) == s.gameState = "playing" /\ r \notin RowIdx

\* handleCellEnter(r, c) for a row index that does not exist: the updater
\* reaches "const ball = grid[r][c]" when the cell is neither the backtrack
\* cell nor in the chain and isAdjacent holds, a TypeError.
CellEnterThrows(s, r, c) ==
  /\ s.gameState = "playing"
  /\ Len(s.selection) > 0
  /\ ~(Len(s.selection) > 1 /\ s.selection[Len(s.selection) - 1] = Pos(r, c))
  /\ ~Contains(s.selection, r, c)
  /\ IsAdjacent(s.selection[Len(s.selection)], r, c)
  /\ r \notin RowIdx

\* handlePointerMove reaching that read.
PointerMoveThrows(s, r, c) ==
  s.isDragging /\ s.gameState = "playing" /\ CellEnterThrows(s, r, c)

\* ---------------------------------------------------- match resolution

\* selection.forEach: addedMoves += 3 per 'moves' tile of the drawn chain
RECURSIVE CountMoves(_, _, _)
CountMoves(g, sel, i) ==
  IF i > Len(sel) THEN 0
  ELSE (IF g[sel[i].r][sel[i].c].powerup = "moves" THEN 3 ELSE 0)
       + CountMoves(g, sel, i + 1)

HasPowerup(g, sel, pw) ==
  \E i \in 1 .. Len(sel) : g[sel[i].r][sel[i].c].powerup = pw

\* A bomb expansion that also pushes the rainbow and special cells.
BombCellsWild(g, chainColor, sel) ==
  {k \in 0 .. (ROWS * COLS - 1) :
     LET b == g[k \div COLS][k % COLS]
     IN b # Null /\ (b.color = chainColor \/ IsWild(b))
          /\ ~Contains(sel, k \div COLS, k % COLS)}

\* The cells the nested loops of the bomb expansion push, as indices
\* k = r * COLS + c: every cell of the chain color that is not in the chain.
BombCells(g, chainColor, sel) ==
  {k \in 0 .. (ROWS * COLS - 1) :
     LET b == g[k \div COLS][k % COLS]
     IN b # Null /\ b.color = chainColor /\ ~Contains(sel, k \div COLS, k % COLS)}

\* finalSelection after the bomb expansion: the chain, then the pushed cells
\* in row-major order.
BombScan(g, chainColor, sel) ==
  LET added == BombCells(g, chainColor, sel)
  IN sel \o [i \in 1 .. Cardinality(added) |->
               LET k == CHOOSE k \in added :
                          Cardinality({j \in added : j < k}) = i - 1
               IN Pos(k \div COLS, k % COLS)]

\* finalSelection
FinalSelection(g, sel) ==
  IF HasPowerup(g, sel, "bomb") /\ ChainColor(g, sel) # "null"
    THEN BombScan(g, ChainColor(g, sel), sel)
    ELSE sel

IsBonus(n) == n >= 5
IsSuperBonus(n) == n >= 10

\* increment of the combo meter for a removal of n cells
ComboIncrement(n) == Min(25, 10 + (n - 3) * 5)

\* A meter that accumulates without the reset at 100.
MeterSum(prev, n) == prev + ComboIncrement(n)

\* The updater passed to setComboMeter: the new meter value.
MeterAfter(prev, n) ==
  IF prev + ComboIncrement(n) >= 100 THEN 0 ELSE prev + ComboIncrement(n)

\* An updater that never takes the breakout branch.
NoBreakout(prev, n) == FALSE

\* Whether that updater takes its "Combo Breakout!" branch.
Breakout(prev, n) == prev + ComboIncrement(n) >= 100

\* A score of ten points per cell, whatever the tier and the multiplier.
FlatScore(n, multTurns, activatedMultiplier) == n * 10

\* baseScore * bonusMultiplier
ScoreDelta(n, multTurns, activatedMultiplier) ==
  (n * 10)
  * (IF IsSuperBonus(n) THEN 4 ELSE IF IsBonus(n) THEN 2 ELSE 1)
  * (IF multTurns > 0 \/ activatedMultiplier THEN 2 ELSE 1)

\* addedMoves that collects the 'moves' tiles of the whole removal set.
AddedMovesRemoved(g, sel, n) ==
  CountMoves(g, FinalSelection(g, sel), 1) + (IF IsSuperBonus(n) THEN 1 ELSE 0)

\* addedMoves: 3 per 'moves' tile, plus 1 for a super bonus
AddedMoves(g, sel, n) ==
  CountMoves(g, sel, 1) + (IF IsSuperBonus(n) THEN 1 ELSE 0)

\* A commit that costs two moves.
TwoMoves(m, g, sel, n) == m - 2 + AddedMoves(g, sel, n)

\* newMoves = moves - 1 + addedMoves
NewMoves(m, g, sel, n) == m - 1 + AddedMoves(g, sel, n)

\* Multiplier turns that no commit consumes.
StickyMultiplier(turns, activatedMultiplier) ==
  IF activatedMultiplier THEN 3 ELSE turns

\* setMultiplierTurns
MultiplierAfter(turns, activatedMultiplier) ==
  IF activatedMultiplier THEN 3
  ELSE IF turns > 0 THEN turns - 1 ELSE turns

UsedColor(g, fin, col) ==
  \E i \in 1 .. Len(fin) : g[fin[i].r][fin[i].c].color = col

\* Targets that count the chain color only, whatever the removal set holds.
ChainColorOnly(prev, g, fin, chainColor) ==
  IF chainColor # "null" /\ chainColor \in DOMAIN prev
    THEN [prev EXCEPT ![chainColor] = Max(0, @ - Len(fin))]
    ELSE prev

\* Targets decremented without the floor at 0.
Unfloored(prev, g, fin, chainColor) ==
  IF chainColor # "null" /\ chainColor \in DOMAIN prev
    THEN [prev EXCEPT ![chainColor] = @ - Len(fin)]
    ELSE prev

\* Targets whose chain color pays the removal count once, special or not.
UndoubledTargets(prev, g, fin, chainColor) ==
  IF UsedColor(g, fin, "rainbow")
    THEN [k \in DOMAIN prev |-> Max(0, prev[k] - Len(fin))]
  ELSE IF chainColor # "null" /\ chainColor \in DOMAIN prev
    THEN [prev EXCEPT ![chainColor] = Max(0, @ - Len(fin))]
  ELSE prev

\* Targets that skip every chain without a chain color, rainbow or not.
ColorlessSkipped(prev, g, fin, chainColor) ==
  IF chainColor = "null" THEN prev
  ELSE IF UsedColor(g, fin, "rainbow")
    THEN [k \in DOMAIN prev |-> Max(0, prev[k] - Len(fin))]
  ELSE IF chainColor \in DOMAIN prev
    THEN [prev EXCEPT ![chainColor] =
            Max(0, @ - Len(fin) * (IF UsedColor(g, fin, "special") THEN 2 ELSE 1))]
  ELSE prev

\* The updater passed to setTargets: newTargets
NewTargets(prev, g, fin, chainColor) ==
  IF UsedColor(g, fin, "rainbow")
    THEN [k \in DOMAIN prev |-> Max(0, prev[k] - Len(fin))]
  ELSE IF chainColor # "null" /\ chainColor \in DOMAIN prev
    THEN [prev EXCEPT ![chainColor] =
            Max(0, @ - Len(fin) * (IF UsedColor(g, fin, "special") THEN 2 ELSE 1))]
  ELSE prev

\* A phase decision that looks at the moves first.
LossFirst(phase, newTargets, newMoves) ==
  IF newMoves <= 0 THEN "lost"
  ELSE IF \A k \in DOMAIN newTargets : newTargets[k] = 0 THEN "levelup"
  ELSE phase

\* A phase decision without the loss check.
NeverLost(phase, newTargets, newMoves) ==
  IF \A k \in DOMAIN newTargets : newTargets[k] = 0 THEN "levelup" ELSE phase

\* A phase decision that ends the run with the first level passed.
WonWhenDone(phase, newTargets, newMoves) ==
  IF \A k \in DOMAIN newTargets : newTargets[k] = 0 THEN "won"
  ELSE IF newMoves <= 0 THEN "lost"
  ELSE phase

\* isWon / newMoves <= 0 of the setTargets updater
PhaseAfter(phase, newTargets, newMoves) ==
  IF \A k \in DOMAIN newTargets : newTargets[k] = 0 THEN "levelup"
  ELSE IF newMoves <= 0 THEN "lost"
  ELSE phase

\* grid.map(row => [...row]): the grid as an array of its own, every cell
\* evaluated once (the comparison makes the function explicit).
CopyGrid(g) == IF g = g THEN g ELSE g

\* A clear that leaves no reward tile.
ClearedOnly(g, sel, fin) ==
  [r \in RowIdx |-> [c \in ColIdx |->
      IF Contains(fin, r, c) THEN Null ELSE g[r][c]]]

\* A clear that leaves the reward tile on the first cell of the chain.
RewardAtChainStart(g, sel, fin) ==
  LET firstSelected == sel[1]
      n == Len(fin)
  IN [r \in RowIdx |-> [c \in ColIdx |->
        IF Pos(r, c) = firstSelected /\ IsSuperBonus(n) THEN Ball("rainbow", "none")
        ELSE IF Pos(r, c) = firstSelected /\ IsBonus(n) THEN Ball("special", "none")
        ELSE IF Contains(fin, r, c) THEN Null
        ELSE g[r][c]]]

\* "Clear balls" and "Create special/rainbow at the end of ORIGINAL selection"
ClearedGrid(g, sel, fin) ==
  LET lastSelected == sel[Len(sel)]
      n == Len(fin)
  IN [r \in RowIdx |-> [c \in ColIdx |->
        IF Pos(r, c) = lastSelected /\ IsSuperBonus(n) THEN Ball("rainbow", "none")
        ELSE IF Pos(r, c) = lastSelected /\ IsBonus(n) THEN Ball("special", "none")
        ELSE IF Contains(fin, r, c) THEN Null
        ELSE g[r][c]]]

\* The branch "if (firstBall)" of handlePointerUp: all state updates of one
\* resolved commit, as React applies them in one batch.  The updates queued
\* by the setComboMeter updater (setScore(s => s + 500), setMoves(m => m + 2))
\* are applied after setScore and setMoves of the handler body.
Resolve(s, d) ==
  LET g == s.grid
      sel == s.selection
      chainColor == ChainColor(g, sel)
      activatedMultiplier == HasPowerup(g, sel, "multiplier")
      fin == FinalSelection(g, sel)
      n == Len(fin)
      breakout == Breakout(s.comboMeter, n)
      newMoves == NewMoves(s.moves, g, sel, n)
      newTargets == NewTargets(s.targets, g, fin, chainColor)
  IN [s EXCEPT
        !.isDragging = FALSE,
        !.combo = @ + 1,
        !.comboMeter = MeterAfter(@, n),
        !.grid = ApplyGravity(CopyGrid(ClearedGrid(g, sel, fin)), d),
        !.score = @ + ScoreDelta(n, s.multiplierTurns, activatedMultiplier)
                    + (IF breakout THEN 500 ELSE 0),
        !.moves = newMoves + (IF breakout THEN 2 ELSE 0),
        !.multiplierTurns = MultiplierAfter(@, activatedMultiplier),
        !.targets = newTargets,
        !.gameState = PhaseAfter(@, newTargets, newMoves),
        !.selection = <<>>]

\* The branch "else if (selection.length > 0)": it belongs to "if (firstBall)"
\* and is inside "if (selection.length >= MIN_MATCH && gameState === 'playing')".
ResetCombo(s) ==
  [s EXCEPT !.isDragging = FALSE, !.combo = 0,
            !.comboMeter = Max(0, @ - 15), !.selection = <<>>]

\* A release that leaves the chain in place when it resolves no match.
ReleaseKeepingChain(s, d) ==
  IF ~s.isDragging THEN s
  ELSE IF Len(s.selection) >= MIN_MATCH /\ s.gameState = "playing"
    THEN Resolve(s, d)
  ELSE [s EXCEPT !.isDragging = FALSE]

\* A release that resolves a chain of any length.
ReleaseAnyLength(s, d) ==
  IF ~s.isDragging THEN s
  ELSE IF Len(s.selection) >= 1 /\ s.gameState = "playing"
    THEN Resolve(s, d)
  ELSE [s EXCEPT !.isDragging = FALSE, !.selection = <<>>]

\* handlePointerUp()
\* A release that resolves a chain of MIN_MATCH cells in every phase.
ReleaseAnyPhase(s, d) ==
  IF ~s.isDragging THEN s
  ELSE IF Len(s.selection) >= MIN_MATCH
    THEN IF s.grid[s.selection[1].r][s.selection[1].c] # Null
           THEN Resolve(s, d)
         ELSE ResetCombo(s)
  ELSE [s EXCEPT !.isDragging = FALSE, !.selection = <<>>]

HandlePointerUp(s, d) ==
  IF ~s.isDragging THEN s
  ELSE IF Len(s.selection) >= MIN_MATCH /\ s.gameState = "playing"
    THEN IF s.grid[s.selection[1].r][s.selection[1].c] # Null
           THEN Resolve(s, d)
         ELSE IF Len(s.selection) > 0 THEN ResetCombo(s)
         ELSE [s EXCEPT !.isDragging = FALSE, !.selection = <<>>]
  ELSE [s EXCEPT !.isDragging = FALSE, !.selection = <<>>]

\* ------------------------------------------------------- level / phase

\* The handlers below take newGrid, the result of their generateGrid(ROWS, COLS)
\* call, and lv, the draws of their generateLevelConfig call.

\* A start that opens the level-up overlay.
StartAtLevelUp(s) == [s EXCEPT !.gameState = "levelup"]

\* startGame()
StartGame(s) == [s EXCEPT !.gameState = "playing"]

\* A level start that also zeroes the score.
NextLevelFromZero(s, newGrid, lv) ==
  LET config == GenerateLevelConfig(s.level + 1, lv)
  IN [s EXCEPT !.level = @ + 1, !.grid = newGrid, !.score = 0,
               !.moves = config.moves, !.targets = config.targets,
               !.gameState = "playing", !.selection = <<>>,
               !.multiplierTurns = 0]

\* startNextLevel()
StartNextLevel(s, newGrid, lv) ==
  LET config == GenerateLevelConfig(s.level + 1, lv)
  IN [s EXCEPT !.level = @ + 1, !.grid = newGrid,
               !.moves = config.moves, !.targets = config.targets,
               !.gameState = "playing", !.selection = <<>>,
               !.multiplierTurns = 0]

\* A reset that also zeroes the combo streak and meter, as goToHome does.
ResetClearingCombo(s, newGrid, lv) ==
  LET config == GenerateLevelConfig(0, lv)
  IN [s EXCEPT !.level = 0, !.grid = newGrid, !.score = 0,
               !.moves = config.moves, !.targets = config.targets,
               !.gameState = "playing", !.selection = <<>>,
               !.multiplierTurns = 0, !.combo = 0, !.comboMeter = 0]

\* resetGame()
ResetGame(s, newGrid, lv) ==
  LET config == GenerateLevelConfig(0, lv)
  IN [s EXCEPT !.level = 0, !.grid = newGrid, !.score = 0,
               !.moves = config.moves, !.targets = config.targets,
               !.gameState = "playing", !.selection = <<>>,
               !.multiplierTurns = 0]

\* A return to the home screen that keeps the combo streak and meter.
HomeKeepingCombo(s, newGrid, lv) ==
  LET config == GenerateLevelConfig(0, lv)
  IN [s EXCEPT !.gameState = "home", !.level = 0, !.score = 0,
               !.moves = config.moves, !.targets = config.targets,
               !.grid = newGrid, !.multiplierTurns = 0]

\* goToHome()
GoToHome(s, newGrid, lv) ==
  LET config == GenerateLevelConfig(0, lv)
  IN [s EXCEPT !.gameState = "home", !.level = 0, !.score = 0,
               !.moves = config.moves, !.targets = config.targets,
               !.grid = newGrid, !.multiplierTurns = 0,
               !.combo = 0, !.comboMeter = 0]

\* The useState initializers of App.
Constructed(newGrid, lv) ==
  [level |-> 0, grid |-> newGrid, selection |-> <<>>,
   isDragging |-> FALSE, score |-> 0,
   moves |-> GenerateLevelConfig(0, lv).moves,
   targets |-> GenerateLevelConfig(0, lv).targets,
   gameState |-> "home", multiplierTurns |-> 0, combo |-> 0, comboMeter |-> 0]

\* ------------------------------------------------------------ replay

\* One input event applied to a state: the handler the event invokes.
Apply(s, e) ==
  CASE e.op = "start" -> StartGame(s)
    [] e.op = "down" -> HandlePointerDown(s, e.r, e.c)
    [] e.op = "move" -> HandlePointerMove(s, e.r, e.c)
    [] e.op = "up" -> HandlePointerUp(s, e.d)
    [] e.op = "next" -> StartNextLevel(s, e.g, e.lv)

RECURSIVE RunRange(_, _, _, _)
\* The state the events es[lo], ..., es[hi] lead to, from state s.
RunRange(s, es, lo, hi) ==
  IF lo > hi THEN s
  ELSE IF lo = hi THEN Apply(s, es[lo])
  ELSE LET mid == (lo + hi) \div 2
           half == RunRange(s, es, lo, mid)
       IN IF half.level >= 0 THEN RunRange(half, es, mid + 1, hi) ELSE half

\* The state a sequence of input events leads to.
Run(s, es) == RunRange(s, es, 1, Len(es))

RECURSIVE Times(_, _)
Times(es, k) == IF k = 0 THEN <<>> ELSE es \o Times(es, k - 1)

Down(r, c) == [op |-> "down", r |-> r, c |-> c]
Move(r, c) == [op |-> "move", r |-> r, c |-> c]
Up(d) == [op |-> "up", d |-> d]

\* Drags over the bottom-left cells, released with the refill draw d.
Drag3(d) == <<Down(7, 0), Move(6, 0), Move(6, 1), Up(d)>>
Drag4(d) == <<Down(7, 0), Move(7, 1), Move(6, 1), Move(6, 0), Up(d)>>
DragBomb(d) == <<Down(6, 0), Move(7, 0), Move(7, 1), Up(d)>>

\* A drag along the top row, where the refill of its own cells lands.
DragTop(d) == <<Down(0, 0), Move(0, 1), Move(0, 2), Up(d)>>

\* A drag along row r from the right edge to the left edge.
DragRow(r, d) ==
  <<Down(r, 4), Move(r, 3), Move(r, 2), Move(r, 1), Move(r, 0), Up(d)>>

\* A drag over ten cells of rows 4 to 6 that ends on (6, 1).
DragTen(d) ==
  <<Down(4, 1), Move(4, 2), Move(4, 3), Move(4, 4), Move(5, 4), Move(5, 3),
    Move(5, 2), Move(5, 1), Move(6, 2), Move(6, 1), Up(d)>>

LevelDraw0 == CHOOSE lv \in LevelDraws : TRUE

\* A game on an all-red board whose refills draw red.
RedGame ==
  Constructed(GenerateGrid(GridDraw("cell", 1, 1, "none")), LevelDraw0)

\* A game on an all-yellow board with a bomb on the bottom-left cell.
YellowBombGame ==
  Constructed(GenerateGrid(GridDraw("cell", 3, 3, "bomb")), LevelDraw0)

\* States of longer games, each reached from a constructed state by the
\* input events listed.
LateStates ==
  { \* six 4-chains: the combo meter stands at 90
    Run(RedGame, <<[op |-> "start"]>> \o Times(Drag4(1), 6)),
    \* 23 3-chains (breakouts at the 10th and the 20th): one move is left
    Run(RedGame, <<[op |-> "start"]>> \o Times(Drag3(1), 23)),
    \* 14 4-chains and 9 3-chains: one move is left and the meter stands at 90
    Run(RedGame, <<[op |-> "start"]>> \o Times(Drag4(1), 14) \o Times(Drag3(1), 9)),
    \* a bomb clears the yellow board and leaves a rainbow, three red 3-chains
    \* follow: the red target stands at 1 and the yellow target at 0
    Run(YellowBombGame,
        <<[op |-> "start"]>> \o DragBomb(1) \o Times(Drag3(1), 3)),
    \* 23 3-chains along the top row, three of them red, four yellow and 16
    \* blue: one move is left, the red target stands at 1, the yellow at 0
    Run(RedGame,
        <<[op |-> "start"]>> \o Times(DragTop(1), 2) \o Times(DragTop(3), 4)
          \o Times(DragTop(2), 17)),
    \* three 5-chains along the rows 7, 6 and 5 leave special tiles on
    \* (7,0), (6,0) and (5,0), a 10-chain leaves a rainbow on (6,1)
    Run(RedGame,
        <<[op |-> "start"]>> \o DragRow(7, 1) \o DragRow(6, 1)
          \o DragRow(5, 1) \o DragTen(3)) }

\* ----------------------------------------------------------- actions

State ==
  [level |-> level, grid |-> grid, selection |-> selection,
   isDragging |-> isDragging, score |-> score, moves |-> moves,
   targets |-> targets, gameState |-> gameState,
   multiplierTurns |-> multiplierTurns, combo |-> combo,
   comboMeter |-> comboMeter]

Becomes(n) ==
  /\ level' = n.level
  /\ grid' = n.grid
  /\ selection' = n.selection
  /\ isDragging' = n.isDragging
  /\ score' = n.score
  /\ moves' = n.moves
  /\ targets' = n.targets
  /\ gameState' = n.gameState
  /\ multiplierTurns' = n.multiplierTurns
  /\ combo' = n.combo
  /\ comboMeter' = n.comboMeter
  /\ error' = error

\* The cells the pointer events of the exploration reach: three cells of the
\* first column, the top one not adjacent to the bottom one, and a neighbour.
InputCells ==
  {Pos(ROWS - 1, 0), Pos(ROWS - 2, 0), Pos(ROWS - 3, 0), Pos(ROWS - 2, 1)}

\* Whether a pointer release resolves a match.
Resolves(s) ==
  s.isDragging /\ Len(s.selection) >= MIN_MATCH /\ s.gameState = "playing"

\* lastEvent records the handler that ran last and, for a pointer release,
\* the length the chain had, whether the release resolved a match, the number
\* of cells removed, whether a rainbow was among them and the last cell of
\* the chain; resolved counts the resolved matches of the behaviour.
Event(op) ==
  LET up == op = "pointerup"
      hit == up /\ Resolves(State)
      fin == FinalSelection(grid, selection)
  IN [op |-> op,
      len |-> IF up THEN Len(selection) ELSE 0,
      matched |-> hit,
      n |-> IF hit THEN Len(fin) ELSE 0,
      rainbow |-> hit /\ UsedColor(grid, fin, "rainbow"),
      last |-> IF hit THEN selection[Len(selection)] ELSE Pos(0, 0)]

\* onPointerDown of a cell; the board is rendered unless the phase is home
PointerDown ==
  /\ gameState # "home"
  /\ \E p \in InputCells : Becomes(HandlePointerDown(State, p.r, p.c))
  /\ lastEvent' = Event("pointerdown")
  /\ UNCHANGED resolved

\* onPointerMove of the board
PointerMove ==
  /\ gameState # "home"
  /\ \E p \in InputCells :
       LET n == HandlePointerMove(State, p.r, p.c)
       IN Len(n.selection) <= MaxChain /\ Becomes(n)
  /\ lastEvent' = Event("pointermove")
  /\ UNCHANGED resolved

\* the pointerup listener of the window
PointerUp ==
  /\ Resolves(State) => resolved < MaxResolved
  /\ \E d \in RefillDraws : Becomes(HandlePointerUp(State, d))
  /\ lastEvent' = Event("pointerup")
  /\ resolved' = IF Resolves(State) THEN resolved + 1 ELSE resolved

\* the START GAME button of the home screen
ClickStart ==
  /\ gameState = "home"
  /\ Becomes(StartGame(State))
  /\ lastEvent' = Event("startGame")
  /\ UNCHANGED resolved

\* the NEXT LEVEL button of the level-up overlay
ClickNextLevel ==
  /\ gameState = "levelup"
  /\ level < MaxLevel
  /\ \E g \in GeneratedGrids, lv \in LevelDraws : Becomes(StartNextLevel(State, g, lv))
  /\ lastEvent' = Event("startNextLevel")
  /\ UNCHANGED resolved

\* the PLAY AGAIN button of the won / lost overlay
ClickPlayAgain ==
  /\ gameState \in {"won", "lost"}
  /\ \E g \in GeneratedGrids, lv \in LevelDraws : Becomes(ResetGame(State, g, lv))
  /\ lastEvent' = Event("resetGame")
  /\ UNCHANGED resolved

\* the Home button of the header and of the won / lost overlay
ClickHome ==
  /\ gameState # "home"
  /\ \E g \in GeneratedGrids, lv \in LevelDraws : Becomes(GoToHome(State, g, lv))
  /\ lastEvent' = Event("goToHome")
  /\ UNCHANGED resolved

Init ==
  /\ \E s \in {Constructed(g, lv) : g \in GeneratedGrids, lv \in LevelDraws}
              \cup LateStates :
       /\ level = s.level
       /\ grid = s.grid
       /\ selection = s.selection
       /\ isDragging = s.isDragging
       /\ score = s.score
       /\ moves = s.moves
       /\ targets = s.targets
       /\ gameState = s.gameState
       /\ multiplierTurns = s.multiplierTurns
       /\ combo = s.combo
       /\ comboMeter = s.comboMeter
  /\ resolved = 0
  /\ lastEvent = [op |-> "none", len |-> 0, matched |-> FALSE, n |-> 0,
                  rainbow |-> FALSE, last |-> Pos(0, 0)]
  /\ error = "none"

Next ==
  \/ PointerDown
  \/ PointerMove
  \/ PointerUp
  \/ ClickStart
  \/ ClickNextLevel
  \/ ClickPlayAgain
  \/ ClickHome

Spec == Init /\ [][Next]_vars

\* ------------------------------------------- calls outside the grid

\* Coordinates outside the grid: a row above the grid, the row below the
\* bottom row, and a column on either side.
OutsideCells ==
  {Pos(-1, 0), Pos(ROWS, 0), Pos(ROWS - 1, -1), Pos(ROWS - 2, COLS)}

\* The state record unchanged and the error raised.
Raises(op) ==
  /\ error' = "TypeError"
  /\ lastEvent' = Event(op)
  /\ UNCHANGED <<level, grid, selection, isDragging, score, moves, targets,
                 gameState, multiplierTurns, combo, comboMeter, resolved>>

\* handlePointerDown called with coordinates outside the grid
PointerDownOutside ==
  \E p \in OutsideCells :
    IF PointerDownThrows(State, p.r, p.c)
      THEN Raises("pointerdownOutside")
      ELSE /\ Becomes(HandlePointerDown(State, p.r, p.c))
           /\ lastEvent' = Event("pointerdownOutside")
           /\ UNCHANGED resolved

\* handlePointerMove forwarding coordinates outside the grid
PointerMoveOutside ==
  \E p \in OutsideCells :
    IF PointerMoveThrows(State, p.r, p.c)
      THEN Raises("pointermoveOutside")
      ELSE /\ Becomes(HandlePointerMove(State, p.r, p.c))
           /\ lastEvent' = Event("pointermoveOutside")
           /\ UNCHANGED resolved

\* The behaviours with calls outside the grid; they end at the first error.
NextCore ==
  /\ error = "none"
  /\ \/ Next
     \/ PointerDownOutside
     \/ PointerMoveOutside

SpecCore == Init /\ [][NextCore]_vars

\* --------------------------- authored-levels variant (src/src/App.tsx)
\* This variant has no powerups, wildcards, multiplier or combo meter: the
\* variables multiplierTurns, combo and comboMeter keep their initial 0.

\* the colors array of generateGrid and applyGravity: the keys of COLOR_CLASSES
AuthoredColors == <<"red", "blue", "yellow", "green", "purple">>

\* const LEVELS
AuthoredLevels ==
  << [moves |-> 20, targets |-> [k \in {"yellow", "red"} |->
          CASE k = "yellow" -> 10 [] k = "red" -> 10]],
     [moves |-> 18, targets |-> [k \in {"yellow", "red", "blue"} |->
          CASE k = "yellow" -> 15 [] k = "red" -> 10 [] k = "blue" -> 5]],
     [moves |-> 15, targets |-> [k \in {"yellow", "red", "blue", "green"} |->
          CASE k = "yellow" -> 20 [] k = "red" -> 15 [] k = "blue" -> 10
            [] k = "green" -> 5]],
     [moves |-> 15, targets |-> [k \in BaseColors |->
          CASE k = "yellow" -> 25 [] k = "red" -> 20 [] k = "blue" -> 15
            [] k = "green" -> 10 [] k = "purple" -> 5]],
     [moves |-> 12, targets |-> [k \in BaseColors |->
          CASE k = "yellow" -> 30 [] k = "red" -> 25 [] k = "blue" -> 20
            [] k = "green" -> 15 [] k = "purple" -> 10]] >>

\* LEVELS[i] for a JavaScript index i
AuthoredLevel(i) == AuthoredLevels[i + 1]

\* generateGrid(rows, cols) when every cell draws the color index k
AuthoredGrid(k) ==
  [r \in RowIdx |-> [c \in ColIdx |-> Ball(AuthoredColors[k], "none")]]

\* The draws explored for a generated grid and for the tiles of a refill.
AuthoredDraws == {1, 3, 5}

\* applyGravity(currentGrid) when every new tile draws the color index d
AuthoredGravity(g, d) ==
  [r \in RowIdx |-> [c \in ColIdx |->
      IF r < EmptySpaces(g, c)
        THEN Ball(AuthoredColors[d], "none")
        ELSE LET src == CHOOSE q \in RowIdx :
                          g[q][c] # Null /\ q + NullsBelow(g, q, c) = r
             IN g[src][c]]]

\* The updater passed to setSelection in handleCellEnter: a cell is appended
\* when it is adjacent to the last cell and has the color of the first one.
AuthoredEnterSelection(g, prev, r, c) ==
  IF Len(prev) = 0 THEN prev
  ELSE IF Len(prev) > 1 /\ prev[Len(prev) - 1] = Pos(r, c)
    THEN SubSeq(prev, 1, Len(prev) - 1)
  ELSE IF Contains(prev, r, c) THEN prev
  ELSE IF IsAdjacent(prev[Len(prev)], r, c)
    THEN LET ball == CellAt(g, r, c)
             firstBall == g[prev[1].r][prev[1].c]
         IN IF ball # Null /\ firstBall # Null /\ ball.color = firstBall.color
              THEN Append(prev, Pos(r, c))
              ELSE prev
  ELSE prev

\* handleCellEnter(r, c)
AuthoredCellEnter(s, r, c) ==
  IF s.gameState # "playing" THEN s
  ELSE [s EXCEPT !.selection = AuthoredEnterSelection(s.grid, s.selection, r, c)]

\* handlePointerMove
AuthoredPointerMove(s, r, c) ==
  IF ~s.isDragging \/ s.gameState # "playing" THEN s
  ELSE AuthoredCellEnter(s, r, c)

\* handlePointerDown(r, c, e)
AuthoredPointerDown(s, r, c) ==
  IF s.gameState # "playing" \/ CellAt(s.grid, r, c) = Null THEN s
  ELSE [s EXCEPT !.isDragging = TRUE, !.selection = <<Pos(r, c)>>]

\* A win check that opens the level-up overlay on every level.
AlwaysLevelUp(phase, lvl, newTargets, newMoves) ==
  IF \A k \in DOMAIN newTargets : newTargets[k] = 0 THEN "levelup"
  ELSE IF newMoves <= 0 THEN "lost"
  ELSE phase

\* isWon / level < LEVELS.length - 1 / newMoves <= 0 of the setTargets updater
AuthoredPhaseAfter(phase, lvl, newTargets, newMoves) ==
  IF \A k \in DOMAIN newTargets : newTargets[k] = 0
    THEN (IF lvl < Len(AuthoredLevels) - 1 THEN "levelup" ELSE "won")
  ELSE IF newMoves <= 0 THEN "lost"
  ELSE phase

\* Whether handlePointerUp enters its match branch.
AuthoredResolves(s) ==
  /\ s.isDragging
  /\ Len(s.selection) >= MIN_MATCH
  /\ s.gameState = "playing"
  /\ s.grid[s.selection[1].r][s.selection[1].c] # Null

\* A match branch that spends no move.
ResolveFreeMove(s, d) ==
  LET sel == s.selection
      color == s.grid[sel[1].r][sel[1].c].color
      cleared == [r \in RowIdx |-> [c \in ColIdx |->
                    IF Contains(sel, r, c) THEN Null ELSE s.grid[r][c]]]
      newTargets == IF color \in DOMAIN s.targets
                      THEN [s.targets EXCEPT ![color] = Max(0, @ - Len(sel))]
                      ELSE s.targets
  IN [s EXCEPT !.isDragging = FALSE,
               !.grid = CopyGrid(AuthoredGravity(CopyGrid(cleared), d)),
               !.score = @ + Len(sel) * 10 * (IF Len(sel) > 5 THEN 2 ELSE 1),
               !.targets = newTargets,
               !.gameState = AuthoredPhaseAfter(@, s.level, newTargets, s.moves),
               !.selection = <<>>]

\* handlePointerUp: the match branch
AuthoredResolve(s, d) ==
  LET sel == s.selection
      color == s.grid[sel[1].r][sel[1].c].color
      isBonus == Len(sel) > 5
      cleared == [r \in RowIdx |-> [c \in ColIdx |->
                    IF Contains(sel, r, c) THEN Null ELSE s.grid[r][c]]]
      newMoves == s.moves - 1
      newTargets == IF color \in DOMAIN s.targets
                      THEN [s.targets EXCEPT ![color] = Max(0, @ - Len(sel))]
                      ELSE s.targets
  IN [s EXCEPT !.isDragging = FALSE,
               !.grid = CopyGrid(AuthoredGravity(CopyGrid(cleared), d)),
               !.score = @ + Len(sel) * 10 * (IF isBonus THEN 2 ELSE 1),
               !.moves = newMoves,
               !.targets = newTargets,
               !.gameState = AuthoredPhaseAfter(@, s.level, newTargets, newMoves),
               !.selection = <<>>]

\* handlePointerUp
AuthoredPointerUp(s, d) ==
  IF ~s.isDragging THEN s
  ELSE IF AuthoredResolves(s) THEN AuthoredResolve(s, d)
  ELSE [s EXCEPT !.isDragging = FALSE, !.selection = <<>>]

\* startGame
AuthoredStartGame(s) == [s EXCEPT !.gameState = "playing"]

\* startNextLevel reads LEVELS[nextLevel].moves: a TypeError when nextLevel
\* is past the end of LEVELS.
NextLevelThrows(s) == s.level + 1 > Len(AuthoredLevels) - 1

\* startNextLevel, when LEVELS[nextLevel] exists
AuthoredStartNextLevel(s, newGrid) ==
  [s EXCEPT !.level = s.level + 1,
            !.grid = newGrid,
            !.moves = AuthoredLevel(s.level + 1).moves,
            !.targets = AuthoredLevel(s.level + 1).targets,
            !.gameState = "playing",
            !.selection = <<>>]

\* startNextLevel up to the read that throws: setLevel and setGrid are queued
NextLevelThrown(s, newGrid) ==
  [s EXCEPT !.level = s.level + 1, !.grid = newGrid]

\* resetGame
AuthoredResetGame(s, newGrid) ==
  [s EXCEPT !.level = 0,
            !.grid = newGrid,
            !.score = 0,
            !.moves = AuthoredLevel(0).moves,
            !.targets = AuthoredLevel(0).targets,
            !.gameState = "playing",
            !.selection = <<>>]

\* goToHome
AuthoredGoToHome(s, newGrid) ==
  [s EXCEPT !.gameState = "home",
            !.level = 0,
            !.score = 0,
            !.moves = AuthoredLevel(0).moves,
            !.targets = AuthoredLevel(0).targets,
            !.grid = newGrid]

\* The useState initializers of App.
AuthoredConstructed(newGrid) ==
  [level |-> 0, grid |-> newGrid, selection |-> <<>>,
   isDragging |-> FALSE, score |-> 0,
   moves |-> AuthoredLevel(0).moves,
   targets |-> AuthoredLevel(0).targets,
   gameState |-> "home", multiplierTurns |-> 0, combo |-> 0, comboMeter |-> 0]

\* One input event applied to a state: the handler the event invokes.
AuthoredApply(s, e) ==
  CASE e.op = "start" -> AuthoredStartGame(s)
    [] e.op = "down" -> AuthoredPointerDown(s, e.r, e.c)
    [] e.op = "move" -> AuthoredPointerMove(s, e.r, e.c)
    [] e.op = "up" -> AuthoredPointerUp(s, e.d)
    [] e.op = "next" -> AuthoredStartNextLevel(s, AuthoredGrid(e.d))

RECURSIVE AuthoredRunRange(_, _, _, _)
\* The state the events es[lo], ..., es[hi] lead to, from state s.
AuthoredRunRange(s, es, lo, hi) ==
  IF lo > hi THEN s
  ELSE IF lo = hi THEN AuthoredApply(s, es[lo])
  ELSE LET mid == (lo + hi) \div 2
           half == AuthoredRunRange(s, es, lo, mid)
       IN IF half.level >= 0 THEN AuthoredRunRange(half, es, mid + 1, hi)
          ELSE half

AuthoredRun(s, es) == AuthoredRunRange(s, es, 1, Len(es))

\* The k-th cell of a path over the whole board: row after row, left to
\* right on even rows and right to left on odd rows.
Snake(k) ==
  Pos(k \div COLS,
      IF (k \div COLS) % 2 = 0 THEN k % COLS ELSE COLS - 1 - (k % COLS))

\* A drag along that path over all cells, released with the refill draw d.
SnakeDrag(d) ==
  <<Down(Snake(0).r, Snake(0).c)>>
    \o [k \in 1 .. (ROWS * COLS - 1) |-> Move(Snake(k).r, Snake(k).c)]
    \o <<Up(d)>>

NextLevel(k) == [op |-> "next", d |-> k]

\* The drags that bring every target of the levels 0, 1 and 2 to zero, on a
\* board that starts all yellow: each drag clears the board and its refill
\* draws the next target color.
WinLevel0 == SnakeDrag(1) \o SnakeDrag(3)
WinLevel1 == SnakeDrag(1) \o SnakeDrag(2) \o SnakeDrag(3)
WinLevel2 == SnakeDrag(1) \o SnakeDrag(2) \o SnakeDrag(4) \o SnakeDrag(3)

\* Level 3 is reached and all its targets but purple are at zero.
AuthoredLevel3 ==
  AuthoredRun(AuthoredConstructed(AuthoredGrid(3)),
    <<[op |-> "start"]>> \o WinLevel0 \o <<NextLevel(3)>>
      \o WinLevel1 \o <<NextLevel(3)>> \o WinLevel2 \o <<NextLevel(3)>>
      \o SnakeDrag(1) \o SnakeDrag(2) \o SnakeDrag(4) \o SnakeDrag(5))

\* States of longer games, each reached from a constructed state by the
\* input events listed.
AuthoredLateStates ==
  { \* level 3, one purple 3-chain resolved: the purple target stands at 2
    AuthoredRun(AuthoredLevel3, Drag3(5)),
    \* level 4, all targets but purple at zero, two purple 4-chains resolved:
    \* the purple target stands at 2
    AuthoredRun(AuthoredLevel3,
      Drag3(5) \o Drag3(3) \o <<NextLevel(3)>>
        \o SnakeDrag(1) \o SnakeDrag(2) \o SnakeDrag(4) \o SnakeDrag(5)
        \o Times(Drag4(5), 2)),
    \* level 0 with one move left and targets open
    AuthoredRun(AuthoredConstructed(AuthoredGrid(5)),
      <<[op |-> "start"]>> \o Times(Drag3(5), 19)) }

\* lastEvent of a step of this variant
AuthoredEvent(op) ==
  LET hit == op = "pointerup" /\ AuthoredResolves(State)
  IN [op |-> op,
      len |-> IF op = "pointerup" THEN Len(selection) ELSE 0,
      matched |-> hit,
      n |-> IF hit THEN Len(selection) ELSE 0,
      rainbow |-> FALSE,
      last |-> IF hit THEN selection[Len(selection)] ELSE Pos(0, 0)]

\* onPointerDown of a cell; the board is rendered unless the phase is home
AuthoredDown ==
  /\ gameState # "home"
  /\ \E p \in InputCells : Becomes(AuthoredPointerDown(State, p.r, p.c))
  /\ lastEvent' = AuthoredEvent("pointerdown")
  /\ UNCHANGED resolved

\* onPointerMove of the board
AuthoredMove ==
  /\ gameState # "home"
  /\ \E p \in InputCells :
       LET n == AuthoredPointerMove(State, p.r, p.c)
       IN Len(n.selection) <= MaxChain /\ Becomes(n)
  /\ lastEvent' = AuthoredEvent("pointermove")
  /\ UNCHANGED resolved

\* the pointerup listener of the window
AuthoredUp ==
  /\ AuthoredResolves(State) => resolved < MaxResolved
  /\ \E d \in AuthoredDraws : Becomes(AuthoredPointerUp(State, d))
  /\ lastEvent' = AuthoredEvent("pointerup")
  /\ resolved' = IF AuthoredResolves(State) THEN resolved + 1 ELSE resolved

\* the START GAME button of the home screen
AuthoredClickStart ==
  /\ gameState = "home"
  /\ Becomes(AuthoredStartGame(State))
  /\ lastEvent' = AuthoredEvent("startGame")
  /\ UNCHANGED resolved

\* the NEXT LEVEL button of the level-up overlay
AuthoredClickNextLevel ==
  /\ gameState = "levelup"
  /\ \E k \in AuthoredDraws :
       IF NextLevelThrows(State)
         THEN /\ level' = NextLevelThrown(State, AuthoredGrid(k)).level
              /\ grid' = NextLevelThrown(State, AuthoredGrid(k)).grid
              /\ error' = "TypeError"
              /\ UNCHANGED <<selection, isDragging, score, moves, targets,
                             gameState, multiplierTurns, combo, comboMeter>>
         ELSE Becomes(AuthoredStartNextLevel(State, AuthoredGrid(k)))
  /\ lastEvent' = AuthoredEvent("startNextLevel")
  /\ UNCHANGED resolved

\* the PLAY AGAIN button of the won / lost overlay
AuthoredClickPlayAgain ==
  /\ gameState \in {"won", "lost"}
  /\ \E k \in AuthoredDraws : Becomes(AuthoredResetGame(State, AuthoredGrid(k)))
  /\ lastEvent' = AuthoredEvent("resetGame")
  /\ UNCHANGED resolved

\* the Home button of the header and of the won / lost overlay
AuthoredClickHome ==
  /\ gameState # "home"
  /\ \E k \in AuthoredDraws : Becomes(AuthoredGoToHome(State, AuthoredGrid(k)))
  /\ lastEvent' = AuthoredEvent("goToHome")
  /\ UNCHANGED resolved

AuthoredInit ==
  /\ \E s \in {AuthoredConstructed(AuthoredGrid(k)) : k \in AuthoredDraws}
              \cup AuthoredLateStates :
       /\ level = s.level
       /\ grid = s.grid
       /\ selection = s.selection
       /\ isDragging = s.isDragging
       /\ score = s.score
       /\ moves = s.moves
       /\ targets = s.targets
       /\ gameState = s.gameState
       /\ multiplierTurns = s.multiplierTurns
       /\ combo = s.combo
       /\ comboMeter = s.comboMeter
  /\ resolved = 0
  /\ lastEvent = [op |-> "none", len |-> 0, matched |-> FALSE, n |-> 0,
                  rainbow |-> FALSE, last |-> Pos(0, 0)]
  /\ error = "none"

AuthoredNext ==
  /\ error = "none"
  /\ \/ AuthoredDown
     \/ AuthoredMove
     \/ AuthoredUp
     \/ AuthoredClickStart
     \/ AuthoredClickNextLevel
     \/ AuthoredClickPlayAgain
     \/ AuthoredClickHome

SpecAuthored == AuthoredInit /\ [][AuthoredNext]_vars

\* ------------------------------------------- the ladder of levels
\* The powerup variant on level indices past the exploration above: states
\* that replayed games reach on the levels 3 to MaxGenLevel, and level draws
\* that vary the shuffle and the extra of every color.

MaxGenLevel == 8

\* The all-red grid, whose refills draw red in the replays below.
RedGrid == GenerateGrid(GridDraw("cell", 1, 1, "none"))

\* A level draw with no extra.
PlainLevelDraw ==
  [order |-> <<"red", "blue", "yellow", "green", "purple">>,
   extra |-> <<0, 0, 0, 0, 0>>]

AdvanceTo(lv) == [op |-> "next", g |-> RedGrid, lv |-> lv]

\* Two drags over the whole red board: the first leaves a rainbow on (7,0),
\* the second holds it and takes every target to zero.
PassLevel == SnakeDrag(1) \o SnakeDrag(1)

RECURSIVE PassLevels(_)
\* The events that pass k levels and open the level after each but the last.
PassLevels(k) ==
  IF k = 0 THEN <<>>
  ELSE IF k = 1 THEN PassLevel
  ELSE PassLevels(k - 1) \o <<AdvanceTo(LevelDraw0)>> \o PassLevel

\* The level-up overlay of level i (all targets at zero).
PassedLevel(i) == Run(RedGame, <<[op |-> "start"]>> \o PassLevels(i + 1))

\* Level i + 1 with targets of 6 each (i + 1 is 5 or 6), played until one
\* chain of three cells with the rainbow on (6,1) takes them to zero.
NearlyPassed(i) ==
  Run(PassedLevel(i),
      <<AdvanceTo(PlainLevelDraw)>> \o SnakeDrag(1) \o Drag3(1) \o DragTen(1))

\* The level draws of the level generator: three shuffles, and for each of them every
\* extra tuple over {0, 4} (the least and the greatest value of
\* Math.floor(Math.random() * 5)) and one mixed tuple.
LadderOrders ==
  { <<"red", "blue", "yellow", "green", "purple">>,
    <<"purple", "green", "yellow", "blue", "red">>,
    <<"yellow", "red", "purple", "blue", "green">> }

LadderExtras ==
  {<<a, b, c, d, e>> : a \in {0, 4}, b \in {0, 4}, c \in {0, 4},
                       d \in {0, 4}, e \in {0, 4}}
    \cup {<<0, 4, 2, 1, 3>>, <<3, 1, 2, 4, 0>>}

LadderDraws ==
  {[order |-> o, extra |-> x] : o \in LadderOrders, x \in LadderExtras}

\* The states the ladder starts from.
LadderStates ==
  {PassedLevel(i) : i \in 3 .. (MaxGenLevel - 1)}
    \cup {NearlyPassed(4), NearlyPassed(5)}

\* the NEXT LEVEL button of the level-up overlay
LadderNextLevel ==
  /\ gameState = "levelup"
  /\ level < MaxGenLevel
  /\ \E lv \in LevelDraws \cup {PlainLevelDraw} :
       Becomes(StartNextLevel(State, RedGrid, lv))
  /\ lastEvent' = Event("startNextLevel")
  /\ UNCHANGED resolved

\* the Home button of the header
LadderHome ==
  /\ gameState # "home"
  /\ \E lv \in LevelDraws : Becomes(GoToHome(State, RedGrid, lv))
  /\ lastEvent' = Event("goToHome")
  /\ UNCHANGED resolved

InitLadder ==
  /\ \E s \in LadderStates :
       /\ level = s.level
       /\ grid = s.grid
       /\ selection = s.selection
       /\ isDragging = s.isDragging
       /\ score = s.score
       /\ moves = s.moves
       /\ targets = s.targets
       /\ gameState = s.gameState
       /\ multiplierTurns = s.multiplierTurns
       /\ combo = s.combo
       /\ comboMeter = s.comboMeter
  /\ resolved = 0
  /\ lastEvent = [op |-> "none", len |-> 0, matched |-> FALSE, n |-> 0,
                  rainbow |-> FALSE, last |-> Pos(0, 0)]
  /\ error = "none"

\* The PLAY AGAIN button is left out: the moves of these states are not
\* used up within MaxResolved commits, so the won / lost overlay is not
\* rendered.
NextLadder ==
  \/ PointerDown
  \/ PointerMove
  \/ PointerUp
  \/ ClickStart
  \/ LadderNextLevel
  \/ LadderHome

SpecLadder == InitLadder /\ [][NextLadder]_vars

\* ------------------------------------------- the level generator
\* startNextLevel from the level-up overlay of every level index below
\* MaxGenLevel, under every draw of LadderDraws.

\* the NEXT LEVEL button of the level-up overlay
AdvanceLevel ==
  /\ gameState = "levelup"
  /\ level < MaxGenLevel
  /\ \E lv \in LadderDraws : Becomes(StartNextLevel(State, RedGrid, lv))
  /\ lastEvent' = Event("startNextLevel")
  /\ UNCHANGED resolved

InitLevels ==
  /\ \E s \in {PassedLevel(i) : i \in 0 .. (MaxGenLevel - 1)} :
       /\ level = s.level
       /\ grid = s.grid
       /\ selection = s.selection
       /\ isDragging = s.isDragging
       /\ score = s.score
       /\ moves = s.moves
       /\ targets = s.targets
       /\ gameState = s.gameState
       /\ multiplierTurns = s.multiplierTurns
       /\ combo = s.combo
       /\ comboMeter = s.comboMeter
  /\ resolved = 0
  /\ lastEvent = [op |-> "none", len |-> 0, matched |-> FALSE, n |-> 0,
                  rainbow |-> FALSE, last |-> Pos(0, 0)]
  /\ error = "none"

SpecLevels == InitLevels /\ [][AdvanceLevel]_vars

\* ------------------------------------------------------- properties

\* A step of the pointerup listener.
Released == lastEvent'.op = "pointerup"

\* The cell a chain coordinate names in the current grid.
CellOf(p) == grid[p.r][p.c]

\* C1: in every reachable state every cell of every column of the grid is
\* occupied.
GridFull == \A r \in RowIdx, c \in ColIdx : grid[r][c] # Null

\* A resolved match has cleared cells and gravity has refilled the grid.
GridFullAfterMatch ==
  /\ lastEvent.matched
  /\ gameState = "playing"
  /\ \A r \in RowIdx, c \in ColIdx : grid[r][c].color \in BaseColors \cup Wildcards

\* C2: in every reachable state all cells of the selection that are neither
\* rainbow nor special have the same color in the current grid.
SelectionOneColor ==
  \A i, j \in 1 .. Len(selection) :
    (~IsWild(CellOf(selection[i])) /\ ~IsWild(CellOf(selection[j])))
      => CellOf(selection[i]).color = CellOf(selection[j]).color

\* C3: in every reachable state the selection is duplicate-free and every two
\* consecutive coordinates are king-move adjacent.
SelectionWellFormed ==
  /\ \A i, j \in 1 .. Len(selection) : i # j => selection[i] # selection[j]
  /\ \A i \in 1 .. (Len(selection) - 1) :
       LET a == selection[i]
           b == selection[i + 1]
       IN /\ a.r - b.r \in {-1, 0, 1}
          /\ a.c - b.c \in {-1, 0, 1}
          /\ a # b

\* A chain of three cells built by pointer moves, its end two rows above its
\* start.
ChainOfThree ==
  /\ lastEvent.op = "pointermove"
  /\ isDragging
  /\ Len(selection) = 3
  /\ selection[1].r - selection[3].r = 2

\* C4: whenever the phase is not playing, no drag is in progress and the chain
\* is empty.
IdleOutsidePlaying ==
  gameState # "playing" => (~isDragging /\ selection = <<>>)

\* C5: a pointer release while a drag is in progress always ends with no drag
\* in progress and an empty chain, whatever the phase is.
CommitEndsIdle ==
  [][(Released /\ isDragging) => (~isDragging' /\ selection' = <<>>)]_vars

\* A chain long enough to match has been released outside the playing phase
\* and was discarded.
DiscardedOutsidePlaying ==
  /\ lastEvent.op = "pointerup"
  /\ lastEvent.len >= MIN_MATCH
  /\ ~lastEvent.matched
  /\ ~isDragging
  /\ selection = <<>>

\* C6: releasing a chain of one or two cells leaves phase, score, moves,
\* targets and grid unchanged.
ShortCommitNoOp ==
  [][(Released /\ Len(selection) \in {1, 2})
       => UNCHANGED <<gameState, score, moves, targets, grid>>]_vars

\* A chain of one or two cells has been released during play.
ShortChainReleased ==
  /\ lastEvent.op = "pointerup"
  /\ lastEvent.len \in {1, 2}
  /\ gameState = "playing"

\* C7: releasing a chain of one or two cells while the phase is playing sets
\* combo to 0 and comboMeter to max(0, comboMeter - 15).
ShortReleaseResetsCombo ==
  [][(Released /\ isDragging /\ gameState = "playing"
        /\ Len(selection) \in {1, 2})
       => (combo' = 0 /\ comboMeter' = Max(0, comboMeter - 15))]_vars

\* C8: 0 <= comboMeter < 100 in every reachable state.
MeterInRange == 0 <= comboMeter /\ comboMeter < 100

\* A resolved match has taken the meter to 100 or more and the meter is back
\* at 0 with the streak still counting.
MeterWrapped ==
  lastEvent.matched /\ comboMeter = 0 /\ combo > 0

\* The number of cells a release of the current chain removes.
RemovalCount == Len(FinalSelection(grid, selection))

\* The meter increment of a removal of n cells: min(25, 10 + (n - 3) * 5).
Increment(n) == IF 10 + (n - 3) * 5 < 25 THEN 10 + (n - 3) * 5 ELSE 25

\* scoreDelta of a release of the current chain.
OwnScore ==
  ScoreDelta(RemovalCount, multiplierTurns,
             HasPowerup(grid, selection, "multiplier"))

\* The moves delta of a release of the current chain: -1 + extraMoves.
OwnMoves == AddedMoves(grid, selection, RemovalCount) - 1

\* C9: a resolved commit whose meter increment brings comboMeter to 100 or
\* more sets comboMeter to 0, adds 500 to score on top of scoreDelta and 2 to
\* moves on top of -1 + extraMoves; a commit that leaves the meter below 100
\* adds neither.
BreakoutBonus ==
  [][(Released /\ Resolves(State))
       => IF comboMeter + Increment(RemovalCount) >= 100
            THEN /\ comboMeter' = 0
                 /\ score' = score + OwnScore + 500
                 /\ moves' = moves + OwnMoves + 2
            ELSE /\ comboMeter' = comboMeter + Increment(RemovalCount)
                 /\ score' = score + OwnScore
                 /\ moves' = moves + OwnMoves]_vars

\* A resolved match has fired the breakout during play: the meter is back
\* at 0 and the score holds the 500 bonus.
BreakoutFired ==
  /\ lastEvent.matched
  /\ comboMeter = 0
  /\ score >= 500
  /\ gameState = "playing"

\* A chain whose cells all have one base color and carry no powerup.
PlainChain ==
  \A i \in 1 .. Len(selection) :
    /\ CellOf(selection[i]).powerup = "none"
    /\ CellOf(selection[i]).color \in BaseColors
    /\ CellOf(selection[i]).color = CellOf(selection[1]).color

\* The target of the chain color decreases by min(target, L).
TargetPaid ==
  LET col == CellOf(selection[1]).color
      L == Len(selection)
  IN col \in DOMAIN targets
       => targets'[col] = targets[col] - Min(targets[col], L)

\* C10 as stated: a resolved plain chain of length L >= 3 decreases the target
\* of its color by min(target, L) and moves by exactly 1.
PlainChainCostsOneMove ==
  [][(Released /\ Resolves(State) /\ PlainChain)
       => (TargetPaid /\ moves' = moves - 1)]_vars

\* C10: a resolved plain chain of length L >= 3 decreases the target of its
\* color by min(target, L) and changes moves by -1, plus 1 when L >= 10, plus
\* 2 when the commit takes the combo meter to 100 or more.
PlainChainEffect ==
  [][(Released /\ Resolves(State) /\ PlainChain)
       => /\ TargetPaid
          /\ moves' = moves - 1
                      + (IF Len(selection) >= 10 THEN 1 ELSE 0)
                      + (IF comboMeter + Increment(Len(selection)) >= 100
                           THEN 2 ELSE 0)]_vars

\* A plain chain of three red cells has been resolved and has fired the
\* breakout: the score is 240 + 30 + 500, the moves are 14 - 1 + 2 and the
\* red target, 0 before, is 0.
PlainBreakoutResolved ==
  /\ lastEvent.matched
  /\ lastEvent.len = 3
  /\ comboMeter = 0
  /\ score = 770
  /\ moves = 15
  /\ targets["red"] = 0

\* The last cell of the chain as it was drawn.
LastSelected == selection[Len(selection)]

\* The number of removed cells below the last cell of the chain, in its column.
RemovedBelowLast ==
  LET fin == FinalSelection(grid, selection)
  IN Cardinality({i \in 1 .. Len(fin) :
                    fin[i].c = LastSelected.c /\ fin[i].r > LastSelected.r})

\* C11 as stated: after a resolved commit that removes at least 10 cells the
\* grid holds a rainbow at the coordinate of the last cell of the chain, and a
\* special there after a removal of 5 to 9 cells.
RewardAtLastCell ==
  [][(Released /\ Resolves(State))
       => /\ RemovalCount >= 10
               => grid'[LastSelected.r][LastSelected.c].color = "rainbow"
          /\ RemovalCount \in 5 .. 9
               => grid'[LastSelected.r][LastSelected.c].color = "special"]_vars

\* C11: after a resolved commit that removes at least 10 cells the grid holds
\* a rainbow in the column of the last cell of the chain, below that cell's
\* row by the number of removed cells under it, and a special there after a
\* removal of 5 to 9 cells.
RewardFallsWithGravity ==
  [][(Released /\ Resolves(State))
       => /\ RemovalCount >= 10
               => grid'[LastSelected.r + RemovedBelowLast][LastSelected.c].color
                    = "rainbow"
          /\ RemovalCount \in 5 .. 9
               => grid'[LastSelected.r + RemovedBelowLast][LastSelected.c].color
                    = "special"]_vars

\* A bomb chain ending at (5, 0) has removed at least 10 cells and the rainbow
\* lies on the bottom row of that column.
RainbowFell ==
  /\ lastEvent.matched
  /\ lastEvent.n >= 10
  /\ lastEvent.last = Pos(ROWS - 3, 0)
  /\ grid[ROWS - 1][0].color = "rainbow"
  /\ grid[ROWS - 3][0].color # "rainbow"

\* Whether the removal set of a release of the current chain holds a rainbow.
RainbowRemoved ==
  LET fin == FinalSelection(grid, selection)
  IN \E i \in 1 .. Len(fin) : CellOf(fin[i]).color = "rainbow"

\* C12: when the removal set of a resolved commit contains a rainbow, every
\* target becomes max(0, target - removalCount).
RainbowHitsAll ==
  [][(Released /\ Resolves(State) /\ RainbowRemoved)
       => \A k \in DOMAIN targets :
            targets'[k] = Max(0, targets[k] - RemovalCount)]_vars

\* A 3-chain with a rainbow has been resolved after the yellow target was
\* cleared: the red target went from 10 to 7.
RainbowChainResolved ==
  /\ lastEvent.rainbow
  /\ lastEvent.n = 3
  /\ targets["red"] = 7
  /\ targets["yellow"] = 0

\* C13: whenever the phase is lost, moves is not positive and some target is
\* greater than 0.
LostMeansNoMoves ==
  gameState = "lost"
    => (moves <= 0 /\ \E k \in DOMAIN targets : targets[k] > 0)

AdvanceLevelEffect ==
  [][(lastEvent'.op = "startNextLevel")
       => /\ level' = level + 1
          /\ \A r \in RowIdx, c \in ColIdx : grid'[r][c] # Null
          /\ \E lv \in LevelDraws :
               /\ moves' = GenerateLevelConfig(level + 1, lv).moves
               /\ targets' = GenerateLevelConfig(level + 1, lv).targets
          /\ level' = 1
               => /\ moves' = 18
                  /\ DOMAIN targets' = {"yellow", "red", "blue"}
                  /\ targets'["yellow"] = 15
                  /\ targets'["red"] = 10
                  /\ targets'["blue"] = 5
          /\ multiplierTurns' = 0
          /\ gameState' = "playing"
          /\ score' = score]_vars

\* Level 1 has been started with the score of level 0.
LevelOneStarted ==
  /\ lastEvent.op = "startNextLevel"
  /\ level = 1
  /\ score > 0
  /\ moves = 18
  /\ gameState = "playing"

\* C16: goToHome sets the phase to home, score, combo, comboMeter and level
\* to 0, moves to 20, targets to yellow 10 and red 10, and installs a full
\* grid.
GoHomeEffect ==
  [][(lastEvent'.op = "goToHome")
       => /\ gameState' = "home"
          /\ score' = 0
          /\ combo' = 0
          /\ comboMeter' = 0
          /\ level' = 0
          /\ moves' = 20
          /\ DOMAIN targets' = {"yellow", "red"}
          /\ targets'["yellow"] = 10
          /\ targets'["red"] = 10
          /\ \A r \in RowIdx, c \in ColIdx : grid'[r][c] # Null]_vars

\* The home screen has been reached from a game with resolved matches.
HomeAfterPlay ==
  /\ lastEvent.op = "goToHome"
  /\ gameState = "home"
  /\ resolved > 0
  /\ score = 0
  /\ comboMeter = 0

\* C17: handlePointerDown and handlePointerMove called with coordinates
\* outside the grid leave the whole game state unchanged and raise no error.
OutsideRejected ==
  [][(lastEvent'.op \in {"pointerdownOutside", "pointermoveOutside"})
       => /\ error' = "none"
          /\ UNCHANGED <<level, grid, selection, isDragging, score, moves,
                         targets, gameState, multiplierTurns, combo,
                         comboMeter>>]_vars

\* C18: releasing a chain of 3 or more cells whose non-wildcard cells do not
\* all have one color leaves score, moves, targets and grid unchanged.
MixedChainDiscarded ==
  [][(Released /\ isDragging /\ Len(selection) >= MIN_MATCH
        /\ ~SelectionOneColor)
       => UNCHANGED <<score, moves, targets, grid>>]_vars

\* The target keys are base colors and the values are natural numbers.
TargetsValid ==
  /\ DOMAIN targets \subseteq BaseColors
  /\ \A k \in DOMAIN targets : targets[k] \in Nat

\* Within a level (a step that is not startNextLevel, resetGame or goToHome)
\* the target keys stay and no target value increases.
TargetsFall ==
  lastEvent'.op \notin {"startNextLevel", "resetGame", "goToHome"}
    => /\ DOMAIN targets' = DOMAIN targets
       /\ \A k \in DOMAIN targets : targets'[k] <= targets[k]

\* C19: every target value is a non-negative integer in every reachable
\* state, the target keys are base colors only, and within a level a target
\* value never increases.
TargetsMonotone == []TargetsValid /\ [][TargetsFall]_vars

\* A 3-chain has been resolved against a red target of 1: the target is 0.
TargetFloored ==
  /\ lastEvent.matched
  /\ lastEvent.n = 3
  /\ ~lastEvent.rainbow
  /\ targets["red"] = 0
  /\ targets["yellow"] = 0
  /\ gameState = "levelup"

\* n * 10 * t * m: t is 4 for n >= 10, 2 for 5 <= n <= 9 and 1 otherwise; m is
\* 2 when multiplierTurns > 0 or the chain holds a multiplier tile, else 1.
TierScore ==
  LET n == RemovalCount
      t == IF n >= 10 THEN 4 ELSE IF n >= 5 THEN 2 ELSE 1
      m == IF multiplierTurns > 0
              \/ \E i \in 1 .. Len(selection) :
                   CellOf(selection[i]).powerup = "multiplier"
           THEN 2 ELSE 1
  IN n * 10 * t * m

RemovedColors(fin) == {CellOf(fin[i]).color : i \in 1 .. Len(fin)}

\* C21: a resolved commit whose removal set holds no rainbow changes the
\* target of the chain color alone, to max(0, target - n * k) with k = 2 when
\* the removal set holds a special tile and k = 1 otherwise; every other
\* target keeps its value, and no target changes when the chain color is not
\* targeted.
ChainColorPaysAlone ==
  [][(Released /\ Resolves(State))
       => LET fin == FinalSelection(grid, selection)
              removed == RemovedColors(fin)
              k == IF "special" \in removed THEN 2 ELSE 1
              chainColor == ChainColor(grid, selection)
          IN "rainbow" \notin removed
               => /\ DOMAIN targets' = DOMAIN targets
                  /\ \A col \in DOMAIN targets :
                       targets'[col] =
                         IF col = chainColor
                           THEN Max(0, targets[col] - Len(fin) * k)
                           ELSE targets[col]]_vars

\* A bomb has paid 6 to the yellow target and a chain of a special tile and
\* two red cells has then paid 2 * 3 to the red target.
SpecialPaidDouble ==
  /\ lastEvent.matched
  /\ ~lastEvent.rainbow
  /\ lastEvent.n = 3
  /\ resolved = 2
  /\ targets = [red |-> 4, yellow |-> 4]

\* C22: a resolved commit leaves moves at its value before the commit - 1
\* + 3 for every 'moves' tile of the chain as drawn + 1 when the removal
\* count is 10 or more + 2 when the combo breakout fires; a 'moves' tile that
\* only the bomb expansion removes adds nothing.
MovesLedger ==
  [][(Released /\ Resolves(State))
       => LET n == RemovalCount
              tiles == Cardinality({i \in 1 .. Len(selection) :
                                      CellOf(selection[i]).powerup = "moves"})
          IN moves' = moves - 1 + 3 * tiles
                        + (IF n >= 10 THEN 1 ELSE 0)
                        + (IF comboMeter + Increment(n) >= 100 THEN 2 ELSE 0)]_vars

\* The first commit of a game is a 3-chain with a bomb that clears the whole
\* yellow board, the 'moves' tile outside the chain included: 20 - 1 + 1
\* moves are left (23 had the tile been collected).
MovesTileBombedAway ==
  /\ lastEvent.matched
  /\ lastEvent.n = ROWS * COLS
  /\ lastEvent.len = 3
  /\ resolved = 1
  /\ moves = 20

\* C23: multiplierTurns stays within 0 .. 3; a resolved commit sets it to 3
\* when the chain holds a multiplier tile and to max(0, previous - 1)
\* otherwise; a release of a chain that is too short to resolve leaves it
\* as it is.
MultiplierTurnsRule ==
  /\ [](multiplierTurns \in 0 .. 3)
  /\ [][Released
          => IF Resolves(State)
               THEN multiplierTurns' =
                      IF \E i \in 1 .. Len(selection) :
                           CellOf(selection[i]).powerup = "multiplier"
                        THEN 3
                        ELSE Max(0, multiplierTurns - 1)
               ELSE multiplierTurns' = multiplierTurns]_vars

\* A resolved commit without a multiplier tile has consumed one of the
\* three turns.
MultiplierTurnConsumed ==
  /\ lastEvent.matched
  /\ multiplierTurns = 2

\* C24: when a commit resolves, the removal set is the chain followed by
\* every grid cell of the chain color that is not in the chain, each once,
\* if the chain holds a bomb tile and its color is defined, and exactly the
\* chain otherwise; a rainbow or special cell outside the chain is never
\* added.
RemovalSetRule ==
  [][(Released /\ Resolves(State))
       => LET fin == FinalSelection(grid, selection)
              chainColor == ChainColor(grid, selection)
              chain == {selection[i] : i \in 1 .. Len(selection)}
              extra == {p \in {Pos(r, c) : r \in RowIdx, c \in ColIdx} :
                          CellOf(p).color = chainColor /\ p \notin chain}
          IN IF /\ \E i \in 1 .. Len(selection) :
                     CellOf(selection[i]).powerup = "bomb"
                /\ chainColor \in BaseColors
               THEN /\ SubSeq(fin, 1, Len(selection)) = selection
                    /\ {fin[i] : i \in (Len(selection) + 1) .. Len(fin)} = extra
                    /\ Len(fin) = Len(selection) + Cardinality(extra)
                    /\ lastEvent'.n = Len(fin)
               ELSE fin = selection /\ lastEvent'.n = Len(selection)]_vars

\* A red bomb chain of three cells has removed the 39 red cells of the
\* board, and the special tile that lay outside the chain is still on (7,0).
BombSparedSpecial ==
  /\ lastEvent.matched
  /\ lastEvent.len = 3
  /\ lastEvent.n = ROWS * COLS - 1
  /\ grid[ROWS - 1][0].color = "special"

\* C25: in the authored-levels variant a commit that brings every target
\* to zero sets the phase to levelup when the level index is below 4 and to
\* won when it is 4; the level index stays within 0 .. 4, and startNextLevel
\* runs only for a level index whose successor has a config, so no read past
\* the end of LEVELS is ever made.
AuthoredWinPhase ==
  /\ [](level \in 0 .. 4 /\ error = "none")
  /\ [][(Released /\ AuthoredResolves(State)
           /\ \A k \in DOMAIN targets' : targets'[k] = 0)
          => gameState' = IF level < 4 THEN "levelup" ELSE "won"]_vars
  /\ [][lastEvent'.op = "startNextLevel"
          => level + 1 <= 4 /\ level' = level + 1]_vars

\* The last target of the final level has been brought to zero and the game
\* is won.
WonOnFinalLevel ==
  /\ lastEvent.matched
  /\ level = 4
  /\ gameState = "won"
  /\ \A k \in DOMAIN targets : targets[k] = 0

\* The phase edges home -> playing, playing -> {levelup, lost, won},
\* {levelup, lost, won} -> playing and {levelup, lost, won} -> home.
ListedEdges ==
  {<<"home", "playing">>}
    \cup {<<"playing", p>> : p \in {"levelup", "lost", "won"}}
    \cup {<<p, "playing">> : p \in {"levelup", "lost", "won"}}
    \cup {<<p, "home">> : p \in {"levelup", "lost", "won"}}

\* C26 as stated: every phase change follows one of the listed edges.
OnlyListedEdges ==
  [][gameState' # gameState => <<gameState, gameState'>> \in ListedEdges]_vars

\* The handlers that can take the phase from one value to another.
EdgeHandlers(from, to) ==
  CASE to = "home" -> {"goToHome"}
    [] from = "home" -> {"startGame"}
    [] from = "playing" -> {"pointerup"}
    [] OTHER -> {"startNextLevel", "resetGame"}

\* C26: every phase change follows one of the listed edges or the edge
\* playing -> home, and it is made by the handler of an input event:
\* startGame for home -> playing, a pointer release for the edges out of
\* playing to levelup, lost or won, startNextLevel or resetGame for the edges
\* back to playing, goToHome for the edges to home.
PhaseEdges ==
  [][gameState' # gameState
       => /\ <<gameState, gameState'>> \in ListedEdges \cup {<<"playing", "home">>}
          /\ lastEvent'.op \in EdgeHandlers(gameState, gameState')]_vars

\* The Home button of the header has been activated during play, while a
\* drag was in progress: the phase went from playing to home.
HomeFromPlaying ==
  /\ lastEvent.op = "goToHome"
  /\ gameState = "home"
  /\ isDragging

\* C27 as stated: a pointer down takes effect only when no chain is active,
\* the phase is playing and the cell is occupied, and then yields the
\* one-element chain of that cell; in every other case the selection is left
\* unchanged.
StartOnlyFromIdle ==
  [][lastEvent'.op = "pointerdown"
       => IF ~isDragging /\ selection = <<>> /\ gameState = "playing"
            THEN \E p \in InputCells : CellOf(p) # Null /\ selection' = <<p>>
            ELSE selection' = selection]_vars

\* The chain handleCellEnter(p) leaves, called in the current state.
Extended(p) == HandleCellEnter(State, p.r, p.c).selection

\* Whether p is the second-to-last cell of the active chain.
IsBacktrack(p) ==
  Len(selection) >= 2 /\ selection[Len(selection) - 1] = p

\* C28: in the playing phase, extending an active chain of at least 2 cells
\* to its second-to-last cell removes exactly the last cell, also though
\* that cell is in the chain (backtrack before repeat); extending it to any
\* other cell of the chain leaves it unchanged; and no extend leaves an
\* active chain with less than 1 cell.
BacktrackRule ==
  /\ [](gameState = "playing"
          => \A p \in InputCells :
               /\ IsBacktrack(p)
                    => Extended(p) = SubSeq(selection, 1, Len(selection) - 1)
               /\ ((\E i \in 1 .. Len(selection) : selection[i] = p)
                     /\ ~IsBacktrack(p))
                    => Extended(p) = selection
               /\ selection # <<>> => Len(Extended(p)) >= 1)
  /\ [][lastEvent'.op = "pointermove"
          => (selection # <<>> => Len(selection') >= 1)]_vars

\* A pointer move has acted on a chain drawn during play whose
\* second-to-last cell is a cell the pointer can reach next.
BacktrackPossible ==
  /\ lastEvent.op = "pointermove"
  /\ gameState = "playing"
  /\ isDragging
  /\ \E p \in InputCells : IsBacktrack(p)

\* The color of the first cell of the chain that is neither rainbow nor
\* special, "null" when there is none.
EstablishedColor ==
  LET based == {i \in 1 .. Len(selection) :
                  CellOf(selection[i]).color \notin Wildcards}
  IN IF based = {} THEN "null"
     ELSE CellOf(selection[CHOOSE i \in based : \A j \in based : i <= j]).color

WildcardChain ==
  \A i \in 1 .. Len(selection) : CellOf(selection[i]).color \in Wildcards

\* The number of rainbow and special cells of a grid.
WildCount(g) ==
  Cardinality({k \in 0 .. (ROWS * COLS - 1) :
                 g[k \div COLS][k % COLS].color \in Wildcards})

\* The cells of a resolved wildcard chain are cleared (new tiles have base
\* colors, a removal of 5 or more cells leaves one reward tile) and the
\* score delta is added, with the 500 of a combo breakout.
WildcardChainCleared ==
  LET n == Len(selection)
  IN /\ WildCount(grid') = WildCount(grid) - n + (IF n >= 5 THEN 1 ELSE 0)
     /\ score' = score + OwnScore
                   + (IF comboMeter + Increment(n) >= 100 THEN 500 ELSE 0)

\* C30 as stated: a resolved commit of a chain of wildcard cells only
\* changes no target, clears the cells of the chain and adds the score delta.
WildcardChainSkipsTargets ==
  [][(Released /\ Resolves(State) /\ WildcardChain)
       => targets' = targets /\ WildcardChainCleared]_vars

\* C30: a resolved commit of a chain of wildcard cells only changes no
\* target when the chain holds no rainbow, and takes every target to
\* max(0, target - n) when it holds one; in both cases the cells of the chain
\* are cleared and the score delta is added.
WildcardChainEffect ==
  [][(Released /\ Resolves(State) /\ WildcardChain)
       => /\ targets' =
               IF \E i \in 1 .. Len(selection) :
                    CellOf(selection[i]).color = "rainbow"
                 THEN [k \in DOMAIN targets |->
                         Max(0, targets[k] - Len(selection))]
                 ELSE targets
          /\ WildcardChainCleared]_vars

\* A chain of the three special cells has been resolved: the targets stand
\* as before, 30 points are added and only the rainbow is left on the board.
SpecialChainResolved ==
  /\ lastEvent.matched
  /\ lastEvent.n = 3
  /\ resolved = 1
  /\ score = 730
  /\ targets = [red |-> 0, yellow |-> 10]
  /\ WildCount(grid) = 1

RECURSIVE TargetSum(_, _)
\* The sum of the targets t over the colors cs.
TargetSum(t, cs) ==
  IF cs = {} THEN 0
  ELSE LET k == CHOOSE k \in cs : TRUE
       IN t[k] + TargetSum(t, cs \ {k})

\* C31: the config startNextLevel installs for a level index i >= 5 has
\* colorCount = min(5, 3 + floor(i / 3)) distinct base colors with a target,
\* each target is floor(baseTargetTotal / colorCount) + d with
\* baseTargetTotal = 20 + 5 * (i - 5 + 1) and d in 0 .. 5, hence positive,
\* and the moves are max(12, floor(sum of targets / 3) + 2); for i < 5 it is
\* the authored config of index i.
GeneratedConfigShape ==
  [][lastEvent'.op = "startNextLevel"
       => LET i == level'
              baseTargetTotal == 20 + 5 * (i - 5 + 1)
              colorCount == IF 3 + (i \div 3) < 5 THEN 3 + (i \div 3) ELSE 5
              sum == TargetSum(targets', DOMAIN targets')
          IN IF i >= 5
               THEN /\ DOMAIN targets' \subseteq BaseColors
                    /\ Cardinality(DOMAIN targets') = colorCount
                    /\ \A k \in DOMAIN targets' :
                         /\ targets'[k] - (baseTargetTotal \div colorCount) \in 0 .. 5
                         /\ targets'[k] > 0
                    /\ moves' = IF (sum \div 3) + 2 > 12 THEN (sum \div 3) + 2
                                ELSE 12
               ELSE /\ targets' = LEVELS[i + 1].targets
                    /\ moves' = LEVELS[i + 1].moves]_vars

\* Level 5 has been generated with the greatest extra for each of its four
\* colors: targets of 10 each and floor(40 / 3) + 2 = 15 moves.
GeneratedLevelFive ==
  /\ lastEvent.op = "startNextLevel"
  /\ level = 5
  /\ Cardinality(DOMAIN targets) = 4
  /\ \A k \in DOMAIN targets : targets[k] = 10
  /\ moves = 15

\* Column c of the grid g from the top row to the bottom row.
ColumnOf(g, c) == [i \in 1 .. ROWS |-> g[i - 1][c]]

Occupied(b) == b # Null

\* Grid after is a stable per-column compaction of grid before: in every
\* column the occupied cells of before are the bottom cells of after, in the
\* same vertical order, and the k cells above them hold new tiles.
StableCompaction(before, after) ==
  \A c \in ColIdx :
    LET kept == SelectSeq(ColumnOf(before, c), Occupied)
        k == ROWS - Len(kept)
    IN /\ SubSeq(ColumnOf(after, c), k + 1, ROWS) = kept
       /\ \A i \in 1 .. k :
            /\ after[i - 1][c].color \in BaseColors
            /\ after[i - 1][c].powerup \in {"none"} \cup Powerups

\* C32: the grid a resolved commit leaves is a stable per-column compaction
\* of the grid with the removed cells vacated: in every column the surviving
\* tiles lie in the bottom rows in their former vertical order, the k top
\* rows hold new tiles, and no tile has changed its column.
GravityStable ==
  [][(Released /\ Resolves(State))
       => StableCompaction(
            ClearedGrid(grid, selection, FinalSelection(grid, selection)),
            grid')]_vars

\* A bomb has removed the yellow cells of rows 6 and 7: the red bomb tile
\* that lay on (5,0) has moved down to (6,0), above the reward tile on (7,0).
TileMovedDown ==
  /\ lastEvent.matched
  /\ resolved = 1
  /\ grid[ROWS - 1][0].color = "special"
  /\ grid[ROWS - 2][0] = Ball("red", "bomb")

\* C33: a fresh grid holds no rainbow or special tile (the grid of the home
\* screen and the grids startNextLevel, resetGame and goToHome install), a
\* pointer release raises the number of rainbow and special tiles by at most
\* one, and no other event changes the grid.
WildcardsOnlyAsRewards ==
  /\ [](gameState = "home" => WildCount(grid) = 0)
  /\ [][IF Released
          THEN grid' = grid \/ WildCount(grid') <= WildCount(grid) + 1
        ELSE IF lastEvent'.op \in {"pointerdown", "pointermove", "startGame"}
          THEN grid' = grid
        ELSE WildCount(grid') = 0]_vars

\* The first commit of a game, a bomb removal of 5 or more cells, has left
\* the only wildcard tile of the board.
FirstRewardTile ==
  /\ lastEvent.matched
  /\ lastEvent.n >= 5
  /\ resolved = 1
  /\ gameState = "playing"
  /\ WildCount(grid) = 1

\* C34 as stated: a tile created by the refill of applyGravity may carry a
\* powerup, as a tile created by generateGrid may: when the top cell of a
\* column of the current grid is vacated, some outcome of the draw of
\* applyGravity (the color index d of the new tile) puts a tile with a
\* powerup there.
RefillMayCarryPowerup ==
  \E d \in 1 .. Len(colors), c \in ColIdx :
    ApplyGravity([grid EXCEPT ![0][c] = Null], d)[0][c].powerup \in Powerups

\* C35: moves is never negative, and it is at least 1 whenever the phase is
\* playing, so a commit resolved in the playing phase has a move to spend.
MovesLeftWhilePlaying ==
  /\ moves >= 0
  /\ gameState = "playing" => moves >= 1

\* A commit has spent the last move with targets open: the game is lost
\* with no move left.
LastMoveSpent ==
  /\ lastEvent.matched
  /\ gameState = "lost"
  /\ moves = 0

\* C36: in the authored-levels variant every resolved commit takes exactly
\* one move and leaves the playing phase unless a move is left; the pointer
\* events that resolve nothing and startGame leave moves as it is, and moves
\* is at least 1 in the playing phase: from a playing state with m moves the
\* phase leaves playing after at most m resolved commits.
MovesBoundCommits ==
  /\ [](gameState = "playing" => moves >= 1)
  /\ [][IF Released /\ AuthoredResolves(State)
          THEN /\ moves' = moves - 1
               /\ gameState' = "playing" => moves' >= 1
        ELSE lastEvent'.op \in {"pointerup", "pointerdown", "pointermove",
                                "startGame"}
               => moves' = moves]_vars

\* The 20th commit of a game on level 0 has spent the last move with
\* targets open: the game is lost.
TwentiethCommitLoses ==
  /\ lastEvent.matched
  /\ level = 0
  /\ score = 600
  /\ moves = 0
  /\ gameState = "lost"

\* C37: in the powerup variant the phase is never won; a resolved commit
\* that leaves every target at zero opens the level-up overlay, on authored
\* and on generated level indices alike; and startNextLevel finds a config
\* for the next index: it raises the level index by one and starts play with
\* targets and at least 12 moves.
NeverWon ==
  /\ [](gameState # "won" /\ error = "none")
  /\ [][(Released /\ Resolves(State)
           /\ \A k \in DOMAIN targets' : targets'[k] = 0)
          => gameState' = "levelup" /\ level' = level]_vars
  /\ [][lastEvent'.op = "startNextLevel"
          => /\ level' = level + 1
             /\ gameState' = "playing"
             /\ DOMAIN targets' # {}
             /\ \A k \in DOMAIN targets' : targets'[k] > 0
             /\ moves' >= 12]_vars

\* A commit on the generated level 6 has taken the last targets to zero:
\* the level-up overlay is open.
GeneratedLevelPassed ==
  /\ lastEvent.matched
  /\ level = 6
  /\ gameState = "levelup"
  /\ \A k \in DOMAIN targets : targets[k] = 0

\* C38: resetGame (Play Again) sets the level index, the score and
\* multiplierTurns to 0, moves and targets to the config of level 0 (20
\* moves; yellow 10, red 10), installs a fresh full grid, empties the
\* selection and sets the phase to playing, and leaves comboMeter and combo
\* as they are; startNextLevel leaves both as they are too.
ResetKeepsCombo ==
  [][/\ lastEvent'.op = "resetGame"
          => /\ level' = 0
             /\ score' = 0
             /\ multiplierTurns' = 0
             /\ moves' = 20
             /\ targets' = [yellow |-> 10, red |-> 10]
             /\ grid' \in GeneratedGrids
             /\ \A r \in RowIdx, c \in ColIdx : grid'[r][c].color \in BaseColors
             /\ selection' = <<>>
             /\ gameState' = "playing"
             /\ comboMeter' = comboMeter
             /\ combo' = combo
     /\ lastEvent'.op = "startNextLevel"
          => comboMeter' = comboMeter /\ combo' = combo]_vars

\* Play Again after a lost game: the streak and the meter of the lost game
\* stand.
ResetWithCombo ==
  /\ lastEvent.op = "resetGame"
  /\ gameState = "playing"
  /\ comboMeter > 0
  /\ combo > 0

\* C39: while the phase is home, levelup, won or lost, a pointer down on a
\* cell, a pointer move over a cell and a pointer release change none of
\* grid, score, moves, targets, level, comboMeter, combo and
\* multiplierTurns.
InputFrameOutsidePlaying ==
  [][(/\ gameState \in {"home", "levelup", "won", "lost"}
      /\ lastEvent'.op \in {"pointerdown", "pointermove", "pointerup"})
       => UNCHANGED <<grid, score, moves, targets, level, comboMeter, combo,
                      multiplierTurns>>]_vars

\* A chain of three cells, kept through goToHome, has been released on the
\* home screen.
ChainReleasedAtHome ==
  /\ lastEvent.op = "pointerup"
  /\ lastEvent.len >= MIN_MATCH
  /\ gameState = "home"
  /\ score = 0

\* The number of tiles of color k on the grid g.
ColorCount(g, k) ==
  Cardinality({i \in 0 .. (ROWS * COLS - 1) :
                 g[i \div COLS][i % COLS].color = k})

\* C40: the reward tile of a resolved commit that removes 5 or more cells
\* goes through the gravity step of that commit: in the grid after the commit
\* a rainbow (10 or more cells removed) or a special (5 to 9) lies in the
\* column of the last cell of the chain, at that cell's row plus the number
\* of removed cells below it in that column, and the commit creates exactly
\* one tile of that color and none of the other wildcard color.
RewardJoinsGravity ==
  [][(Released /\ Resolves(State))
       => LET fin == FinalSelection(grid, selection)
              n == Len(fin)
              last == selection[Len(selection)]
              cells == {fin[i] : i \in 1 .. n}
              below == Cardinality({p \in cells :
                                      p.c = last.c /\ p.r > last.r})
              kind == IF n >= 10 THEN "rainbow" ELSE "special"
              gone(k) == Cardinality({p \in cells : grid[p.r][p.c].color = k})
          IN n >= 5
               => /\ grid'[last.r + below][last.c].color = kind
                  /\ \A k \in Wildcards :
                       ColorCount(grid', k)
                         = ColorCount(grid, k) - gone(k)
                             + (IF k = kind THEN 1 ELSE 0)]_vars

\* The first commit of a game, a bomb removal of 5 to 9 cells whose chain
\* ends above the bottom row, has left one special tile, which lies below
\* the last cell of the chain.
SpecialFell ==
  /\ lastEvent.matched
  /\ lastEvent.n \in 5 .. 9
  /\ resolved = 1
  /\ ColorCount(grid, "special") = 1
  /\ \E r \in RowIdx : /\ r > lastEvent.last.r
                       /\ grid[r][lastEvent.last.c].color = "special"

====
